---- MODULE Spec2Model ----
(***************************************************************************)
(* group_stats: grouped statistics over a delimited line stream.           *)
(*                                                                         *)
(* The model follows src/src/main.rs: main() chooses numeric or string     *)
(* mode, the two *_in_buf_reader loops consume the stream one line at a    *)
(* time, split each line at the last delimiter and update the per-group    *)
(* accumulators, and the result is handed to the output renderer.          *)
(*                                                                         *)
(* A string is a sequence of characters, a character is a one-element      *)
(* token ("g", ",", "U+00E9").  An Option or Result is a sequence of       *)
(* length 0 (None / Err) or 1 (Some(x) / Ok(x)).  An f64 is a record       *)
(* [k, v]: a finite whole number, a NaN or a signed infinity.  The modules *)
(* number_stats and string_stats are not part of the available source;     *)
(* their operations are modelled from the specification text, restricted   *)
(* to count, null_count, min, max and the cardinality set (the running     *)
(* mean and squared deviation are read by no property below).              *)
(***************************************************************************)
EXTENDS Integers, Sequences, FiniteSets, Bags, TLC

VARIABLES
    pc,                 \* where main() is: "main", "reading", "returned", "printed",
                        \* "exited" (exit(2) after the help text) or "panicked"
    strings,            \* args.strings
    delimiter,          \* args.input_delimiter
    zero_as_null,       \* args.zero_as_null
    empty_as_null,      \* args.empty_as_null
    cardinality_cap,    \* args.cardinality_cap
    group_number_stats, \* the HashMap of group_number_stats_in_buf_reader
    group_string_stats, \* the HashMap of group_string_stats_in_buf_reader
    raw,                \* Some(line) for the line of the latest iteration, None before
    calls,              \* the accumulator calls the latest iteration made, in order
    consumed,           \* the bag of lines the loop has consumed so far
    io_error,           \* whether lines() has yielded an Err
    corpus              \* which set of lines the input stream is drawn from

vars == <<pc, strings, delimiter, zero_as_null, empty_as_null, cardinality_cap,
          group_number_stats, group_string_stats, raw, calls, consumed,
          io_error, corpus>>

----------------------------------------------------------------------------
(* Bounds of the model. *)

\* Lines read from a stream of the curated corpus.
MaxLines == 3

\* Lines read from a stream of the short-line corpus.
MaxSplitLines == 2

\* Longest line of the short-line corpus.
MaxLen == 3

----------------------------------------------------------------------------
(* Options, results and strings. *)

None == <<>>

Some(x) == <<x>>

\* The characters of the short-line corpus.
ShortAlphabet == {",", "5"}

RECURSIVE SeqsUpTo(_, _)
SeqsUpTo(S, n) ==
    IF n = 0 THEN {<<>>}
    ELSE LET shorter == SeqsUpTo(S, n - 1)
         IN  shorter \cup {Append(s, c) : s \in {t \in shorter : Len(t) = n - 1}, c \in S}

ShortLines == SeqsUpTo(ShortAlphabet, MaxLen)

Sentinel == <<"<", "I", "N", "V", "A", "L", "I", "D", ">">>

\* The lines of the curated corpus.
CuratedLines ==
    { <<"g", ",", "5">>,
      <<"g", ",", "0">>,
      <<"g", ",", "-", "0">>,
      <<"g", ",", " ", "5">>,
      <<"G", ",", "5">>,
      <<"g", ",", "x">>,
      <<"g", ",">>,
      <<"g", ",", "N", "a", "N">>,
      <<"g", ",", "-", "i", "n", "f">>,
      <<"g", ",", "U+00E9">>,
      <<"h", ",", "1", "0">>,
      <<"a", ",", "b", ",", "5">>,
      <<"x">>,
      <<>>,
      Sentinel \o <<",", "5">> }

Lines(c) == IF c = "curated" THEN CuratedLines ELSE ShortLines

LineLimit(c) == IF c = "curated" THEN MaxLines ELSE MaxSplitLines

\* Characters whose UTF-8 encoding takes more than one byte.
TwoByteChars == {"U+00E9"}

ThreeByteChars == {"U+20AC"}

Utf8Len(c) == IF c \in TwoByteChars THEN 2 ELSE IF c \in ThreeByteChars THEN 3 ELSE 1

\* str::len: the number of bytes of the UTF-8 encoding.
RECURSIVE StrLen(_)
StrLen(s) == IF s = <<>> THEN 0 ELSE Utf8Len(Head(s)) + StrLen(Tail(s))

\* str::rfind for a char pattern: the index of the last occurrence, 0 if none.
RECURSIVE RFind(_, _, _)
RFind(s, d, i) ==
    IF i = 0 THEN 0
    ELSE IF s[i] = d THEN i
    ELSE RFind(s, d, i - 1)

\* A split at the first occurrence, as str::split_once would do.
RECURSIVE Find(_, _, _)
Find(s, d, i) ==
    IF i > Len(s) THEN 0
    ELSE IF s[i] = d THEN i
    ELSE Find(s, d, i + 1)

RSplitOnce_first(s, d) ==
    LET i == Find(s, d, 1)
    IN  IF i = 0 THEN None
        ELSE Some(<<SubSeq(s, 1, i - 1), SubSeq(s, i + 1, Len(s))>>)

\* str::rsplit_once(delimiter): None, or Some((before, after)) of the last occurrence.
RSplitOnce(s, d) ==
    LET i == RFind(s, d, Len(s))
    IN  IF i = 0 THEN None
        ELSE Some(<<SubSeq(s, 1, i - 1), SubSeq(s, i + 1, Len(s))>>)

----------------------------------------------------------------------------
(* 64-bit floats and str::parse::<f64>. *)

Num(n) == [k |-> "num", v |-> n]

NaN == [k |-> "nan", v |-> 0]

Inf(sign) == [k |-> "inf", v |-> sign]

IsFinite(x) == x.k = "num"

\* num == 0.0
IsZero(x) == x.k = "num" /\ x.v = 0

\* a < b on f64: false whenever either side is NaN.
FLess(a, b) ==
    IF a.k = "nan" \/ b.k = "nan" THEN FALSE
    ELSE IF a.k = "inf" THEN a.v < 0 /\ ~(b.k = "inf" /\ b.v < 0)
    ELSE IF b.k = "inf" THEN b.v > 0
    ELSE a.v < b.v

DigitVal ==
    ("0" :> 0) @@ ("1" :> 1) @@ ("2" :> 2) @@ ("3" :> 3) @@ ("4" :> 4) @@
    ("5" :> 5) @@ ("6" :> 6) @@ ("7" :> 7) @@ ("8" :> 8) @@ ("9" :> 9)

IsDigit(c) == c \in DOMAIN DigitVal

RECURSIVE DecValue(_)
DecValue(s) ==
    IF s = <<>> THEN 0
    ELSE 10 * DecValue(SubSeq(s, 1, Len(s) - 1)) + DigitVal[s[Len(s)]]

UpperLetters == <<"A", "F", "I", "N", "T", "Y">>

LowerLetters == <<"a", "f", "i", "n", "t", "y">>

\* ASCII lower-casing of the letters that occur in "nan", "inf" and "infinity".
ToLower(c) ==
    IF \E i \in 1..Len(UpperLetters) : UpperLetters[i] = c
    THEN LowerLetters[CHOOSE i \in 1..Len(UpperLetters) : UpperLetters[i] = c]
    ELSE c

\* str::parse::<f64> on the characters of the model (no '.', no exponent):
\* an optional sign, then decimal digits, or nan / inf / infinity in any case.
ParseF64(s) ==
    LET signed == s # <<>> /\ s[1] \in {"+", "-"}
        sign   == IF s # <<>> /\ s[1] = "-" THEN -1 ELSE 1
        body   == IF signed THEN Tail(s) ELSE s
        low    == [i \in 1..Len(body) |-> ToLower(body[i])]
    IN  IF body = <<>> THEN None
        ELSE IF \A i \in 1..Len(body) : IsDigit(body[i])
             THEN Some(Num(sign * DecValue(body)))
        ELSE IF low = <<"n", "a", "n">> THEN Some(NaN)
        ELSE IF low = <<"i", "n", "f">> \/ low = <<"i", "n", "f", "i", "n", "i", "t", "y">>
             THEN Some(Inf(sign))
        ELSE None

----------------------------------------------------------------------------
(* NumberStats and StringStats. *)

NumberStatsNew == [count |-> 0, null_count |-> 0, min |-> None, max |-> None]

NumberAdd(st, x) ==
    IF st.count = 0
    THEN [st EXCEPT !.count = 1, !.min = Some(x), !.max = Some(x)]
    ELSE [st EXCEPT !.count = st.count + 1,
                    !.min = IF FLess(x, st.min[1]) THEN Some(x) ELSE st.min,
                    !.max = IF FLess(st.max[1], x) THEN Some(x) ELSE st.max]

NumberAddNull(st) == [st EXCEPT !.null_count = st.null_count + 1]

StringStatsNew(cap) == [seen |-> {}, cap |-> cap, capped |-> FALSE, null_count |-> 0]

StringAdd(st, s) ==
    IF st.cap = Some(0) \/ st.capped \/ s \in st.seen THEN st
    ELSE IF st.cap # None /\ Cardinality(st.seen) >= st.cap[1]
         THEN [st EXCEPT !.capped = TRUE]
    ELSE [st EXCEPT !.seen = st.seen \cup {s}]

StringAddNull(st) == [st EXCEPT !.null_count = st.null_count + 1]

----------------------------------------------------------------------------
(* The loop bodies. *)

NoArg == [k |-> "none", v |-> 0]

StrArg(s) == [k |-> "str", v |-> s]

Call(acc, op, arg) == [acc |-> acc, op |-> op, arg |-> arg]

PutGroup(m, key, st) == [x \in DOMAIN m \cup {key} |-> IF x = key THEN st ELSE m[x]]

\* The group a line's entry() call names.
LineKey(line, d) ==
    LET sp == RSplitOnce(line, d)
    IN  IF sp # None THEN sp[1][1] ELSE Sentinel

\* A zero_as_null guard that forgets the comparison with 0.0.
NumberCalls_nozerotest(groups, line, d, zan) ==
    LET sp == RSplitOnce(line, d)
    IN  IF sp # None
        THEN LET parsed == ParseF64(sp[1][2])
             IN  IF parsed # None /\ zan
                 THEN <<Call("number", "add_null", NoArg)>>
                 ELSE IF parsed # None
                 THEN <<Call("number", "add", parsed[1])>>
                 ELSE <<Call("number", "add_null", NoArg)>>
        ELSE IF Sentinel \in DOMAIN groups
             THEN <<Call("number", "add_null", NoArg)>>
             ELSE <<>>

\* The calls one iteration of the numeric loop makes on the entry's accumulator.
NumberCalls(groups, line, d, zan) ==
    LET sp == RSplitOnce(line, d)
    IN  IF sp # None
        THEN LET parsed == ParseF64(sp[1][2])
             IN  IF parsed # None /\ zan /\ IsZero(parsed[1])
                 THEN <<Call("number", "add_null", NoArg)>>
                 ELSE IF parsed # None
                 THEN <<Call("number", "add", parsed[1])>>
                 ELSE <<Call("number", "add_null", NoArg)>>
        ELSE IF Sentinel \in DOMAIN groups
             THEN <<Call("number", "add_null", NoArg)>>
             ELSE <<>>

ApplyNumberCall(st, c) ==
    IF c.op = "add" THEN NumberAdd(st, c.arg) ELSE NumberAddNull(st)

RECURSIVE ApplyNumberCalls(_, _)
ApplyNumberCalls(st, cs) ==
    IF cs = <<>> THEN st
    ELSE ApplyNumberCalls(ApplyNumberCall(st, Head(cs)), Tail(cs))

\* One iteration of the loop of group_number_stats_in_buf_reader.
IngestNumber(groups, line, d, zan) ==
    LET key   == LineKey(line, d)
        entry == IF key \in DOMAIN groups THEN groups[key] ELSE NumberStatsNew
    IN  PutGroup(groups, key, ApplyNumberCalls(entry, NumberCalls(groups, line, d, zan)))

\* A null branch that forgets the length accumulator.
StringCalls_valueonly(groups, line, d, ean) ==
    LET sp == RSplitOnce(line, d)
    IN  IF sp # None
        THEN IF ean /\ sp[1][2] = <<>>
             THEN <<Call("value", "add_null", NoArg)>>
             ELSE <<Call("length", "add", Num(StrLen(sp[1][2]))),
                    Call("value", "add", StrArg(sp[1][2]))>>
        ELSE IF Sentinel \in DOMAIN groups
             THEN <<Call("value", "add_null", NoArg)>>
             ELSE <<>>

\* A null branch taken for every empty value, whatever empty_as_null says.
StringCalls_emptyalways(groups, line, d, ean) ==
    LET sp == RSplitOnce(line, d)
    IN  IF sp # None
        THEN IF sp[1][2] = <<>>
             THEN <<Call("length", "add_null", NoArg),
                    Call("value", "add_null", NoArg)>>
             ELSE <<Call("length", "add", Num(StrLen(sp[1][2]))),
                    Call("value", "add", StrArg(sp[1][2]))>>
        ELSE IF Sentinel \in DOMAIN groups
             THEN <<Call("value", "add_null", NoArg)>>
             ELSE <<>>

\* The calls one iteration of the string loop makes on the entry's accumulators.
StringCalls(groups, line, d, ean) ==
    LET sp == RSplitOnce(line, d)
    IN  IF sp # None
        THEN IF ean /\ sp[1][2] = <<>>
             THEN <<Call("length", "add_null", NoArg),
                    Call("value", "add_null", NoArg)>>
             ELSE <<Call("length", "add", Num(StrLen(sp[1][2]))),
                    Call("value", "add", StrArg(sp[1][2]))>>
        ELSE IF Sentinel \in DOMAIN groups
             THEN <<Call("value", "add_null", NoArg)>>
             ELSE <<>>

ApplyStringCall(pair, c) ==
    IF c.acc = "length"
    THEN [pair EXCEPT !.length_stats = ApplyNumberCall(pair.length_stats, c)]
    ELSE [pair EXCEPT !.value_stats =
              IF c.op = "add" THEN StringAdd(pair.value_stats, c.arg.v)
              ELSE StringAddNull(pair.value_stats)]

RECURSIVE ApplyStringCalls(_, _)
ApplyStringCalls(pair, cs) ==
    IF cs = <<>> THEN pair
    ELSE ApplyStringCalls(ApplyStringCall(pair, Head(cs)), Tail(cs))

StringPairNew(cap) == [value_stats |-> StringStatsNew(cap), length_stats |-> NumberStatsNew]

\* One iteration of the loop of group_string_stats_in_buf_reader.
IngestString(groups, line, d, ean, cap) ==
    LET key   == LineKey(line, d)
        entry == IF key \in DOMAIN groups THEN groups[key] ELSE StringPairNew(cap)
    IN  PutGroup(groups, key, ApplyStringCalls(entry, StringCalls(groups, line, d, ean)))

----------------------------------------------------------------------------
(* The state machine. *)

EmptyMap == [x \in {} |-> 0]

Config ==
    /\ strings \in BOOLEAN
    /\ zero_as_null \in BOOLEAN
    /\ empty_as_null \in BOOLEAN
    /\ cardinality_cap \in {None, Some(0), Some(1)}
    \* the flags of the other mode are not read
    /\ strings => ~zero_as_null
    /\ ~strings => (~empty_as_null /\ cardinality_cap = None)

Start ==
    /\ pc = "main"
    /\ group_number_stats = EmptyMap
    /\ group_string_stats = EmptyMap
    /\ raw = None
    /\ calls = <<>>
    /\ consumed = EmptyBag
    /\ io_error = FALSE

Init ==
    /\ corpus = "curated"
    /\ delimiter = ","
    /\ Config
    /\ Start

InitSplit ==
    /\ corpus = "short"
    /\ delimiter \in ShortAlphabet
    /\ strings \in BOOLEAN
    /\ zero_as_null = FALSE
    /\ empty_as_null = FALSE
    /\ cardinality_cap = None
    /\ Start

\* file is "-" and stdin is a terminal: print the help text and exit(2).
HelpExit ==
    /\ pc = "main"
    /\ pc' = "exited"
    /\ UNCHANGED <<strings, delimiter, zero_as_null, empty_as_null,
                   cardinality_cap, group_number_stats, group_string_stats,
                   raw, calls, consumed, io_error, corpus>>

\* File::open(&file).unwrap() panics.
OpenFail ==
    /\ pc = "main"
    /\ pc' = "panicked"
    /\ UNCHANGED <<strings, delimiter, zero_as_null, empty_as_null,
                   cardinality_cap, group_number_stats, group_string_stats,
                   raw, calls, consumed, io_error, corpus>>

\* The reader is built and handed to the loop of the chosen mode.
OpenInput ==
    /\ pc = "main"
    /\ pc' = "reading"
    /\ UNCHANGED <<strings, delimiter, zero_as_null, empty_as_null,
                   cardinality_cap, group_number_stats, group_string_stats,
                   raw, calls, consumed, io_error, corpus>>

NumberLine ==
    /\ pc = "reading"
    /\ ~strings
    /\ BagCardinality(consumed) < LineLimit(corpus)
    /\ \E line \in Lines(corpus) :
          /\ raw' = Some(line)
          /\ calls' = NumberCalls(group_number_stats, line, delimiter, zero_as_null)
          /\ group_number_stats' =
                 IngestNumber(group_number_stats, line, delimiter, zero_as_null)
          /\ consumed' = consumed (+) SetToBag({line})
    /\ UNCHANGED <<pc, strings, delimiter, zero_as_null, empty_as_null,
                   cardinality_cap, group_string_stats, io_error, corpus>>

StringLine ==
    /\ pc = "reading"
    /\ strings
    /\ BagCardinality(consumed) < LineLimit(corpus)
    /\ \E line \in Lines(corpus) :
          /\ raw' = Some(line)
          /\ calls' = StringCalls(group_string_stats, line, delimiter, empty_as_null)
          /\ group_string_stats' =
                 IngestString(group_string_stats, line, delimiter, empty_as_null,
                              cardinality_cap)
          /\ consumed' = consumed (+) SetToBag({line})
    /\ UNCHANGED <<pc, strings, delimiter, zero_as_null, empty_as_null,
                   cardinality_cap, group_number_stats, io_error, corpus>>

\* A loop that drops a failed read and goes on with the next line.
ReadFail_skip ==
    /\ pc = "reading"
    /\ io_error' = TRUE
    /\ UNCHANGED <<pc, strings, delimiter, zero_as_null, empty_as_null,
                   cardinality_cap, group_number_stats, group_string_stats,
                   raw, calls, consumed, corpus>>

\* lines() yields Err and line.unwrap() panics.
ReadFail ==
    /\ pc = "reading"
    /\ io_error' = TRUE
    /\ pc' = "panicked"
    /\ UNCHANGED <<strings, delimiter, zero_as_null, empty_as_null,
                   cardinality_cap, group_number_stats, group_string_stats,
                   raw, calls, consumed, corpus>>

\* lines() is exhausted and the loop's function returns the map.
EndOfInput ==
    /\ pc = "reading"
    /\ pc' = "returned"
    /\ UNCHANGED <<strings, delimiter, zero_as_null, empty_as_null,
                   cardinality_cap, group_number_stats, group_string_stats,
                   raw, calls, consumed, io_error, corpus>>

PrintNumber ==
    /\ pc = "returned"
    /\ ~strings
    /\ pc' = "printed"
    /\ UNCHANGED <<strings, delimiter, zero_as_null, empty_as_null,
                   cardinality_cap, group_number_stats, group_string_stats,
                   raw, calls, consumed, io_error, corpus>>

PrintString ==
    /\ pc = "returned"
    /\ strings
    /\ pc' = "printed"
    /\ UNCHANGED <<strings, delimiter, zero_as_null, empty_as_null,
                   cardinality_cap, group_number_stats, group_string_stats,
                   raw, calls, consumed, io_error, corpus>>

Next ==
    \/ HelpExit
    \/ OpenFail
    \/ OpenInput
    \/ NumberLine
    \/ StringLine
    \/ ReadFail
    \/ EndOfInput
    \/ PrintNumber
    \/ PrintString

Spec == Init /\ [][Next]_vars

SplitSpec == InitSplit /\ [][Next]_vars

----------------------------------------------------------------------------
(* Vocabulary of the properties, stated without the loop's own operators. *)

HasDelimiter(line, d) == \E i \in 1..Len(line) : line[i] = d

\* The position the claims split at: the delimiter with no delimiter after it.
SplitAt(line, d) ==
    CHOOSE i \in 1..Len(line) :
        /\ line[i] = d
        /\ \A j \in (i + 1)..Len(line) : line[j] # d

KeyOf(line, d) == SubSeq(line, 1, SplitAt(line, d) - 1)

ValueOf(line, d) == SubSeq(line, SplitAt(line, d) + 1, Len(line))

\* The lines consumed so far that are in S, counted with their multiplicity.
RECURSIVE Copies(_)
Copies(S) ==
    IF S = {} THEN 0
    ELSE LET x == CHOOSE x \in S : TRUE
         IN  CopiesIn(x, consumed) + Copies(S \ {x})

ConsumedLines == BagToSet(consumed)

\* m: the consumed lines that hold no delimiter.
Malformed == Copies({l \in ConsumedLines : ~HasDelimiter(l, delimiter)})

\* The consumed lines routed to group k.
Routed(k) ==
    Copies({l \in ConsumedLines :
               IF HasDelimiter(l, delimiter) THEN KeyOf(l, delimiter) = k
               ELSE k = Sentinel})

\* A step of either loop body.
LineStep == consumed' # consumed

Groups == IF strings THEN group_string_stats ELSE group_number_stats

GroupsNext == IF strings THEN group_string_stats' ELSE group_number_stats'

\* The null count C1 names: the numeric accumulator's, or the value sub-accumulator's.
NullCount(m, k) ==
    IF k \notin DOMAIN m THEN 0
    ELSE IF strings THEN m[k].value_stats.null_count ELSE m[k].null_count

\* count + null_count of the accumulator that sees every observation of a group.
Observations(m, k) ==
    IF strings THEN m[k].length_stats.count + m[k].length_stats.null_count
    ELSE m[k].count + m[k].null_count

OthersUnchanged(old, new, key) ==
    /\ DOMAIN new = DOMAIN old \cup {key}
    /\ \A k \in DOMAIN old \ {key} : new[k] = old[k]

----------------------------------------------------------------------------
(* C1: every line without the delimiter raises the null count of the       *)
(* <INVALID> group by exactly one and creates no other group (both modes). *)
C1_SentinelNullIncrement ==
    [][(LineStep /\ ~HasDelimiter(raw'[1], delimiter)) =>
          /\ NullCount(GroupsNext, Sentinel) = NullCount(Groups, Sentinel) + 1
          /\ DOMAIN GroupsNext = DOMAIN Groups \cup {Sentinel}]_vars

(* C2: in numeric mode count(k) + null_count(k) of every group k is the    *)
(* number of consumed lines routed to k.                                   *)
C2_EveryLineCounted ==
    ~strings =>
        \A k \in DOMAIN group_number_stats :
            Observations(group_number_stats, k) = Routed(k)

(* C3: in numeric mode a line with the delimiter applies exactly one       *)
(* operation to its key's accumulator (created empty if absent): add_null  *)
(* when the value does not parse, add_null when it parses to 0 under       *)
(* zero_as_null, add(value) otherwise; no other group is created/changed.  *)
C3_NumericDispatch ==
    [][(LineStep /\ ~strings /\ HasDelimiter(raw'[1], delimiter)) =>
          LET key    == KeyOf(raw'[1], delimiter)
              parsed == ParseF64(ValueOf(raw'[1], delimiter))
              old    == IF key \in DOMAIN group_number_stats
                        THEN group_number_stats[key] ELSE NumberStatsNew
              null   == \/ parsed = None
                        \/ (zero_as_null /\ parsed[1].k = "num" /\ parsed[1].v = 0)
          IN  /\ Len(calls') = 1
              /\ calls'[1].acc = "number"
              /\ IF null
                 THEN /\ calls'[1].op = "add_null"
                      /\ group_number_stats'[key] = NumberAddNull(old)
                 ELSE /\ calls'[1].op = "add"
                      /\ calls'[1].arg = parsed[1]
                      /\ group_number_stats'[key] = NumberAdd(old, parsed[1])
              /\ OthersUnchanged(group_number_stats, group_number_stats', key)]_vars

C3_Witness ==
    /\ ~strings
    /\ ~zero_as_null
    /\ raw = Some(<<"g", ",", "0">>)
    /\ consumed = SetToBag({<<"g", ",", "x">>, <<"g", ",", "0">>, <<"h", ",", "1", "0">>})
    /\ group_number_stats[<<"g">>].count = 1
    /\ group_number_stats[<<"g">>].null_count = 1
    /\ group_number_stats[<<"g">>].min = Some(Num(0))

(* C4: in numeric mode add(value) is never called with a NaN or an         *)
(* infinite value.                                                         *)
C4_AddOnlyFinite ==
    \A i \in 1..Len(calls) :
        (calls[i].acc = "number" /\ calls[i].op = "add") => IsFinite(calls[i].arg)

(* C5: a line with the delimiter is split at its last occurrence only: the *)
(* key is all before it (possibly empty or holding the delimiter), the     *)
(* value all after it; lines share a group iff their keys are equal.       *)
C5_RightSplit ==
    /\ \A l \in ConsumedLines :
           HasDelimiter(l, delimiter) => KeyOf(l, delimiter) \in DOMAIN Groups
    /\ \A k \in DOMAIN Groups \ {Sentinel} :
           Observations(Groups, k) =
               Copies({l \in ConsumedLines :
                          HasDelimiter(l, delimiter) /\ KeyOf(l, delimiter) = k})
    /\ (raw # None /\ HasDelimiter(raw[1], delimiter)) =>
           LET key   == KeyOf(raw[1], delimiter)
               value == ValueOf(raw[1], delimiter)
           IN  /\ key \o <<delimiter>> \o value = raw[1]
               /\ ~HasDelimiter(value, delimiter)
               /\ strings => (Len(calls) = 2 /\ calls[2].arg = StrArg(value))
               /\ (~strings /\ calls[1].op = "add") => Some(calls[1].arg) = ParseF64(value)

C5_Witness ==
    /\ delimiter = ","
    /\ ~strings
    /\ raw = Some(<<",", ",", "5">>)
    /\ consumed = SetToBag({<<",", "5">>, <<",", ",", "5">>})
    /\ DOMAIN group_number_stats = {<<>>, <<",">>}
    /\ group_number_stats[<<",">>].count = 1

(* C6: in string mode a line with the delimiter calls add_null once on     *)
(* both accumulators of its group when empty_as_null is set and the value  *)
(* is empty (the cardinality set does not see the value), and add once on  *)
(* both otherwise (the value's length, the value itself).                  *)
C6_StringDispatch ==
    [][(LineStep /\ strings /\ HasDelimiter(raw'[1], delimiter)) =>
          LET key   == KeyOf(raw'[1], delimiter)
              value == ValueOf(raw'[1], delimiter)
              old   == IF key \in DOMAIN group_string_stats
                       THEN group_string_stats[key] ELSE StringPairNew(cardinality_cap)
              new   == group_string_stats'[key]
          IN  /\ Len(calls') = 2
              /\ calls'[1].acc = "length"
              /\ calls'[2].acc = "value"
              /\ IF empty_as_null /\ value = <<>>
                 THEN /\ calls'[1].op = "add_null"
                      /\ calls'[2].op = "add_null"
                      /\ new.length_stats = NumberAddNull(old.length_stats)
                      /\ new.value_stats =
                             [old.value_stats EXCEPT !.null_count = @ + 1]
                 ELSE /\ calls'[1].op = "add"
                      /\ calls'[1].arg \in {Num(Len(value)), Num(StrLen(value))}
                      /\ calls'[2] = Call("value", "add", StrArg(value))
                      /\ new.length_stats = NumberAdd(old.length_stats, calls'[1].arg)
                      /\ new.value_stats = StringAdd(old.value_stats, value)
              /\ OthersUnchanged(group_string_stats, group_string_stats', key)]_vars

C6_Witness ==
    /\ strings
    /\ ~empty_as_null
    /\ cardinality_cap = Some(1)
    /\ raw = Some(<<"g", ",">>)
    /\ consumed = SetToBag({<<"g", ",", "5">>, <<"g", ",">>})
    /\ group_string_stats[<<"g">>].length_stats.count = 2
    /\ group_string_stats[<<"g">>].length_stats.min = Some(Num(0))
    /\ group_string_stats[<<"g">>].value_stats.capped

(* C7: the number added to the length statistics for a non-null value is   *)
(* the value's number of characters, not its number of encoded bytes.      *)
C7_LengthInChars ==
    (strings /\ raw # None /\ HasDelimiter(raw[1], delimiter)) =>
        \A i \in 1..Len(calls) :
            (calls[i].acc = "length" /\ calls[i].op = "add") =>
                calls[i].arg = Num(Len(ValueOf(raw[1], delimiter)))

(* C8: after a failed read the map is neither returned nor rendered, in    *)
(* either mode, while no line, however malformed, stops the loop.          *)
C8_ReadFailureIsFatal ==
    /\ [](io_error => pc = "panicked")
    /\ [][LineStep => (pc' = "reading" /\ ~io_error')]_vars

C8_Witness ==
    /\ io_error
    /\ pc = "panicked"
    /\ consumed = SetToBag({<<"x">>, <<"g", ",", "x">>})
    /\ DOMAIN Groups = {Sentinel, <<"g">>}

(* C9, as claimed: in string mode the null count of the value accumulator  *)
(* equals that of the length accumulator for every group, <INVALID> too.   *)
C9_NullCountsEqual ==
    strings =>
        \A k \in DOMAIN group_string_stats :
            group_string_stats[k].value_stats.null_count =
                group_string_stats[k].length_stats.null_count

(* C9, amended: the two null counts are equal for every group other than   *)
(* <INVALID>; for <INVALID> the value accumulator's is at least the length *)
(* accumulator's.                                                          *)
C9_NullCountsEqualButSentinel ==
    strings =>
        \A k \in DOMAIN group_string_stats :
            IF k = Sentinel
            THEN group_string_stats[k].value_stats.null_count >=
                     group_string_stats[k].length_stats.null_count
            ELSE group_string_stats[k].value_stats.null_count =
                     group_string_stats[k].length_stats.null_count

C9_Witness ==
    /\ strings
    /\ empty_as_null
    /\ DOMAIN group_string_stats = {Sentinel, <<"g">>}
    /\ group_string_stats[<<"g">>].value_stats.null_count = 1
    /\ group_string_stats[<<"g">>].length_stats.null_count = 1
    /\ group_string_stats[Sentinel].value_stats.null_count = 1
    /\ group_string_stats[Sentinel].length_stats.null_count = 0

(* C10: the <INVALID> group reflects only lines without the delimiter: its *)
(* count of non-null observations is 0 and its null count is at most the   *)
(* number of such lines.                                                   *)
C10_SentinelOnlyMalformed ==
    Sentinel \in DOMAIN Groups =>
        /\ (IF strings THEN group_string_stats[Sentinel].length_stats.count
                       ELSE group_number_stats[Sentinel].count) = 0
        /\ NullCount(Groups, Sentinel) <= Malformed

====
